---- MODULE Spec2Model ----
(***************************************************************************)
(* Model of the query orchestration of langgraph-rag-agent-nodejs:         *)
(* runAgentGraph -> delegatingNode -> delegateQuery, which classifies the  *)
(* query (analyzeQuery), runs ragGenerate / extractChartParams /           *)
(* handleDirectAnswer as promises joined by Promise.all, and merges the    *)
(* results.  Texts are sequences of tokens; a completion of the language   *)
(* model and a reply of the document store are inputs chosen by the        *)
(* environment.                                                            *)
(***************************************************************************)
EXTENDS Integers, Sequences, FiniteSets, TLC

\* ------------------------------------------------------------------------
\* Bounds
\* ------------------------------------------------------------------------

\* longest labels / data array a chart-extraction completion may carry
MaxSeries == 3

\* longest list of retrieved documents handed to the synthesis step
MaxDocs == 3

\* how many times setup-db is run
MaxRuns == 3

\* ------------------------------------------------------------------------
\* Values
\* ------------------------------------------------------------------------

\* JavaScript undefined, for an absent key of a parsed object
Undef == -1

\* JavaScript null / "no value yet", for string- or sequence-valued slots
Null == "null"

Min(a, b) == IF a < b THEN a ELSE b

Range(s) == {s[i] : i \in 1..Len(s)}

\* the first n elements of s (a limit applied to a result list)
Take(s, n) == SubSeq(s, 1, Min(n, Len(s)))

\* ------------------------------------------------------------------------
\* The document store (weaviate-setup.js: createSchema, insertData)
\* ------------------------------------------------------------------------

Tenants == {"tenant1", "tenant2", "tenant3"}

\* the tenant every entry point falls back to when none is given
DefaultTenant == "tenant1"

\* limit of the primary keyword search, limit of the full scan
PrimaryLimit == 5
ScanLimit == 100

\* The five seeded entries in insertion order.  question and answer are the
\* texts lower-cased and split into words, as the 'word' tokenization of the
\* schema indexes them.
qaEntries ==
  << [tenant |-> "tenant1", fileId |-> "FILE-001",
      question |-> <<"what", "is", "the", "capital", "of", "france">>,
      answer |-> <<"the", "capital", "of", "france", "is", "paris", "which",
                   "is", "also", "the", "largest", "city", "in", "the",
                   "country">>],
     [tenant |-> "tenant1", fileId |-> "FILE-002",
      question |-> <<"how", "does", "photosynthesis", "work">>,
      answer |-> <<"photosynthesis", "is", "the", "process", "by", "which",
                   "plants", "use", "sunlight", "water", "and", "carbon",
                   "dioxide", "to", "create", "oxygen", "and", "energy", "in",
                   "the", "form", "of", "sugar">>],
     [tenant |-> "tenant2", fileId |-> "FILE-003",
      question |-> <<"what", "is", "the", "speed", "of", "light">>,
      answer |-> <<"the", "speed", "of", "light", "in", "a", "vacuum", "is",
                   "approximately", "299", "792", "458", "meters", "per",
                   "second", "or", "about", "186", "282", "miles", "per",
                   "second">>],
     [tenant |-> "tenant2", fileId |-> "FILE-004",
      question |-> <<"who", "wrote", "romeo", "and", "juliet">>,
      answer |-> <<"romeo", "and", "juliet", "was", "written", "by", "william",
                   "shakespeare", "one", "of", "the", "most", "famous",
                   "playwrights", "in", "history">>],
     [tenant |-> "tenant3", fileId |-> "FILE-005",
      question |-> <<"what", "is", "artificial", "intelligence">>,
      answer |-> <<"artificial", "intelligence", "ai", "is", "the",
                   "simulation", "of", "human", "intelligence", "processes",
                   "by", "machines", "especially", "computer", "systems",
                   "including", "learning", "reasoning", "and", "self",
                   "correction">>] >>

\* the stored object of an entry: its three properties
DocOf(e) == [fileId |-> e.fileId, question |-> e.question, answer |-> e.answer]

RECURSIVE TenantDocs(_, _, _)
\* the objects of tenant t among the first k entries, in insertion order
TenantDocs(entries, k, t) ==
  IF k = 0 THEN << >>
  ELSE LET rest == TenantDocs(entries, k - 1, t)
           e == entries[k]
       IN IF e.tenant = t THEN Append(rest, DocOf(e)) ELSE rest

\* the store after insertData has created the tenants and inserted its first
\* k entries
StoreAfter(k) == [t \in Tenants |-> TenantDocs(qaEntries, k, t)]

SeededStore == StoreAfter(Len(qaEntries))

\* words the bm25 index of the collection ignores (the store's default
\* English stopword preset; createSchema sets no other)
Stopwords ==
  {"a", "an", "and", "are", "as", "at", "be", "but", "by", "for", "if", "in",
   "into", "is", "it", "no", "not", "of", "on", "or", "such", "that", "the",
   "their", "then", "there", "these", "they", "this", "to", "was", "will",
   "with"}

\* the searchable words of an object: question and answer are indexSearchable,
\* fileId is not
Searchable(doc) == (Range(doc.question) \cup Range(doc.answer)) \ Stopwords

RECURSIVE Filter(_, _)
\* the objects of docs that share a searchable word with the query, in order
Filter(docs, words) ==
  IF docs = << >> THEN << >>
  ELSE LET d == Head(docs)
           rest == Filter(Tail(docs), words)
       IN IF Searchable(d) \cap words # {} THEN <<d>> \o rest ELSE rest

\* tenantCollection.query.bm25(query, {limit}): the matching objects of that
\* tenant, at most limit of them
Bm25(st, t, q, limit) == Take(Filter(st[t], Range(q) \ Stopwords), limit)

\* tenantCollection.query.fetchObjects({limit}): the objects of that tenant
FetchObjects(st, t, limit) == Take(st[t], limit)

\* ------------------------------------------------------------------------
\* Queries
\* ------------------------------------------------------------------------

QRomeo == <<"who", "wrote", "romeo", "and", "juliet">>
QFrance == <<"what", "is", "the", "capital", "of", "france">>
QHello == <<"hello", "how", "are", "you">>

Queries == {QRomeo, QFrance, QHello}

\* ------------------------------------------------------------------------
\* Completion texts and JSON extraction (analyzeQuery, extractChartParams)
\* ------------------------------------------------------------------------

\* A completion text is a sequence of tokens <<kind, value>>: an opening
\* brace, a closing brace, a run of prose, or one "key": value member.
LB == <<"{", 0>>
RB == <<"}", 0>>
TXT == <<"t", 0>>
Member(k, v) == <<k, v>>

MemberKeys ==
  {"needsChart", "needsRAG", "needsDirect", "chartType", "title", "labels",
   "data"}

IsMember(tok) == tok[1] \in MemberKeys

\* the value of response.content.match(...) when nothing matches
NoMatch == << >>

\* response.content.match(/\{[\s\S]*\}/): the region from the first opening
\* brace to the last closing brace after it
MatchJson(text) ==
  LET opens == {i \in 1..Len(text) : text[i] = LB}
      closes == {j \in 1..Len(text) : text[j] = RB}
  IN IF opens = {} THEN NoMatch
     ELSE LET i == CHOOSE x \in opens : \A y \in opens : x <= y
              after == {j \in closes : j > i}
          IN IF after = {} THEN NoMatch
             ELSE LET j == CHOOSE x \in after : \A y \in after : y <= x
                  IN SubSeq(text, i, j)

\* whether JSON.parse accepts the region: an object whose body is a list of
\* members
ParsesAsJson(region) ==
  /\ Len(region) >= 2
  /\ region[1] = LB
  /\ region[Len(region)] = RB
  /\ \A i \in 2..(Len(region) - 1) : IsMember(region[i])

\* the value JSON.parse gives key k of the object: the last member with that
\* key, undefined when there is none
Prop(region, k) ==
  LET at == {i \in 2..(Len(region) - 1) : region[i][1] = k}
  IN IF at = {} THEN Undef
     ELSE region[CHOOSE x \in at : \A y \in at : y <= x][2]

\* JSON.parse(jsonMatch[0]) of a region it accepts (it throws a SyntaxError
\* on any other)
JsonParse(region) == [k \in MemberKeys |-> Prop(region, k)]

\* a flag member holds 1 for true and 0 for false; an absent flag is falsy
Truthy(v) == v = 1

\* the two reasoning strings of the classifier's defaults, and the reasoning
\* of a decision the model wrote
ReasonNoMatch == "Could not parse LLM response, defaulting to RAG"
ReasonError == "Error in analysis, defaulting to RAG"
ReasonModel == "model"

\* the default decision of analyzeQuery
DefaultDecision(reason) ==
  [needsChart |-> FALSE, needsRAG |-> TRUE, needsDirect |-> FALSE,
   reasoning |-> reason]

\* a reply of the language model gateway: a completion text, or a failure
Completion(text) == [status |-> "ok", text |-> text]
GatewayFailure == [status |-> "failed", text |-> << >>]

\* no reply yet
NoReply == [status |-> "none", text |-> << >>]

\* analyzeQuery with a catch that gives up on every tool instead of
\* defaulting to RAG
analyzeQuery_NoDefault(reply) ==
  IF reply.status # "ok" THEN DefaultDecision(ReasonError)
  ELSE LET jsonMatch == MatchJson(reply.text)
       IN IF jsonMatch = NoMatch THEN DefaultDecision(ReasonNoMatch)
          ELSE IF ~ParsesAsJson(jsonMatch)
               THEN [DefaultDecision(ReasonError) EXCEPT !.needsRAG = FALSE]
               ELSE LET decision == JsonParse(jsonMatch)
                    IN [needsChart |-> Truthy(decision["needsChart"]),
                        needsRAG |-> Truthy(decision["needsRAG"]),
                        needsDirect |-> Truthy(decision["needsDirect"]),
                        reasoning |-> ReasonModel]

\* analyzeQuery from the reply of model.invoke on: the decision it returns
analyzeQuery(reply) ==
  IF reply.status # "ok" THEN DefaultDecision(ReasonError)
  ELSE LET jsonMatch == MatchJson(reply.text)
       IN IF jsonMatch = NoMatch THEN DefaultDecision(ReasonNoMatch)
          ELSE IF ~ParsesAsJson(jsonMatch) THEN DefaultDecision(ReasonError)
               ELSE LET decision == JsonParse(jsonMatch)
                    IN [needsChart |-> Truthy(decision["needsChart"]),
                        needsRAG |-> Truthy(decision["needsRAG"]),
                        needsDirect |-> Truthy(decision["needsDirect"]),
                        reasoning |-> ReasonModel]

\* ------------------------------------------------------------------------
\* Chart parameters and chart configuration
\* ------------------------------------------------------------------------

ChartTypes == <<"bar", "line", "pie">>
LabelNames == <<"Q1", "Q2", "Q3", "Q4", "Q5", "Q6">>
DataValues == <<100, 150, 120, 90, 60, 30>>

\* the array a labels / data member of length n stands for
LabelsOf(n) == SubSeq(LabelNames, 1, n)
DataOf(n) == SubSeq(DataValues, 1, n)

\* an array-valued parameter: the array, or undefined
Array(items) == [defined |-> TRUE, items |-> items]
NoArray == [defined |-> FALSE, items |-> << >>]

\* the default chart of extractChartParams
DefaultChartParams ==
  [chartType |-> "bar", title |-> "Sample Chart",
   labels |-> Array(<<"A", "B", "C">>), data |-> Array(<<10, 20, 15>>)]

\* the parameters a parsed object carries; an absent key stays undefined
ParamsOf(obj) ==
  [chartType |-> IF obj["chartType"] = Undef THEN Null
                 ELSE ChartTypes[obj["chartType"]],
   title |-> IF obj["title"] = Undef THEN Null ELSE "Sales",
   labels |-> IF obj["labels"] = Undef THEN NoArray
              ELSE Array(LabelsOf(obj["labels"])),
   data |-> IF obj["data"] = Undef THEN NoArray
            ELSE Array(DataOf(obj["data"]))]

\* an extraction whose failures yield no parameters at all, leaving the
\* defaults to generateChartConfig
extractChartParams_NoDefault(reply) ==
  LET none == [chartType |-> Null, title |-> Null,
               labels |-> NoArray, data |-> NoArray]
  IN IF reply.status # "ok" THEN none
     ELSE LET jsonMatch == MatchJson(reply.text)
          IN IF jsonMatch = NoMatch THEN none
             ELSE IF ~ParsesAsJson(jsonMatch) THEN none
                  ELSE ParamsOf(JsonParse(jsonMatch))

\* extractChartParams from the reply of model.invoke on
extractChartParams(reply) ==
  IF reply.status # "ok" THEN DefaultChartParams
  ELSE LET jsonMatch == MatchJson(reply.text)
       IN IF jsonMatch = NoMatch THEN DefaultChartParams
          ELSE IF ~ParsesAsJson(jsonMatch) THEN DefaultChartParams
               ELSE ParamsOf(JsonParse(jsonMatch))

\* generateChartConfig (chartjs-tool.js); the colour lists, which do not
\* depend on the parameters, are left out
generateChartConfig(params) ==
  [type |-> IF params.chartType = Null THEN "bar" ELSE params.chartType,
   labels |-> IF ~params.labels.defined
              THEN <<"Label 1", "Label 2", "Label 3">>
              ELSE params.labels.items,
   datasetLabel |-> IF params.title = Null THEN "Dataset" ELSE params.title,
   data |-> IF ~params.data.defined THEN <<12, 19, 3>>
            ELSE params.data.items,
   titleText |-> IF params.title = Null THEN "Chart Title" ELSE params.title,
   lineOptions |-> params.chartType = "line",
   yBeginAtZero |-> params.chartType \in {"bar", "line"}]

\* the extracted parameters handed on as they are, with nothing added
mockGenerateChart_PassThrough(params) ==
  [type |-> params.chartType, labels |-> params.labels.items,
   datasetLabel |-> Null, data |-> params.data.items,
   titleText |-> params.title, lineOptions |-> FALSE, yBeginAtZero |-> FALSE]

\* mockGenerateChart (chartjs-tool.js)
mockGenerateChart(params) == generateChartConfig(params)

\* ------------------------------------------------------------------------
\* State
\* ------------------------------------------------------------------------

VARIABLES
  store,      \* the document store: tenant -> sequence of objects
  query,      \* the query text of the request
  optTenant,  \* options.tenant of the request (Null when not given)
  orch,       \* delegateQuery: "classifying", "waiting", "returned", "threw"
  clsReply,   \* the reply analyzeQuery got from the model
  decision,   \* the decision of analyzeQuery
  rag,        \* the promise of ragGenerate
  chart,      \* the promise of extractChartParams(...).then(mockGenerateChart)
  chartReply, \* the reply extractChartParams got from the model
  direct,     \* the promise of handleDirectAnswer
  conns,      \* number of open store clients
  storeLog,   \* the calls of the store functions, in order, with outcomes
  llmLog,     \* the completion requests issued, in order
  settleLog,  \* the tasks that settled, in the order they settled
  result,     \* the state runAgentGraph returns (the response)
  currentTenant, \* interactiveMode: the shell's current tenant
  peer,       \* interactiveMode: another query line's request
  schema,     \* the store: whether QACollection exists, and its tenants
  setup       \* weaviate-setup.js main: the setup-db process

\* what lies outside a request: the shell, the schema, the setup process
envVars == <<currentTenant, peer, schema, setup>>

vars ==
  <<store, query, optTenant, orch, clsReply, decision, rag, chart, chartReply,
    direct, conns, storeLog, llmLog, settleLog, result, currentTenant, peer,
    schema, setup>>

\* const { tenant = 'tenant1' } = options, in runAgentGraph and delegateQuery
TenantOf(opt) == IF opt = Null THEN DefaultTenant ELSE opt

\* the tenant read from the shell's variable whenever it is needed
tenant_Ambient == currentTenant

\* the tenant of the request: the value runAgentGraph was called with
tenant == TenantOf(optTenant)

\* error.message of a failing store client and of a failing model call
ErrStore == "store unavailable"
ErrLlm == "model unavailable"

\* texts a completion request can return as an answer
SynthAnswer == "grounded answer"
DirectAnswer == "direct answer"

NoDecision ==
  [needsChart |-> FALSE, needsRAG |-> FALSE, needsDirect |-> FALSE,
   reasoning |-> Null]

\* chartConfig: null
NullChart ==
  [type |-> Null, labels |-> << >>, datasetLabel |-> Null, data |-> << >>,
   titleText |-> Null, lineOptions |-> FALSE, yBeginAtZero |-> FALSE]

NoRagData == [answer |-> Null, fileIds |-> << >>, references |-> << >>]

\* a promise that was never created
RagIdle ==
  [pc |-> "none", scan |-> FALSE, docs |-> << >>, thrown |-> Null,
   data |-> NoRagData, error |-> Null]
ChartIdle == [pc |-> "none", data |-> NullChart]
DirectIdle == [pc |-> "none", answer |-> Null, error |-> Null]

\* no other query line has been entered
PeerIdle == [pc |-> "idle", query |-> << >>, tenant |-> Null]

\* the schema once createSchema and the tenant loop of insertData have run
SeededSchema == [exists |-> TRUE, tenants |-> Tenants]

\* setup-db is not running
SetupIdle == [pc |-> "idle", runs |-> 0, next |-> 1, exists |-> FALSE]

\* ------------------------------------------------------------------------
\* ragGenerate (rag-agent.js)
\* ------------------------------------------------------------------------

CannedAnswer ==
  "I could not find any relevant information in the database to answer your question."

\* the value ragGenerate returns when nothing was retrieved
EmptyRagData ==
  [answer |-> CannedAnswer, fileIds |-> << >>, references |-> << >>]

\* a call retrieveFromWeaviate(query, tenant, limit): the operation it puts
\* to the store, pending until the function settles
retrieveFromWeaviate(q, t, limit) ==
  [op |-> "bm25", tenant |-> t, query |-> q, limit |-> limit,
   outcome |-> "pending", objects |-> << >>]

\* a call fetchAllFromWeaviate(tenant)
fetchAllFromWeaviate(t) ==
  [op |-> "fetchObjects", tenant |-> t, query |-> << >>, limit |-> ScanLimit,
   outcome |-> "pending", objects |-> << >>]

\* result.objects of the operation of a call
StoreReply(st, call) ==
  IF call.op = "bm25" THEN Bm25(st, call.tenant, call.query, call.limit)
  ELSE FetchObjects(st, call.tenant, call.limit)

\* Step 1 of ragGenerate: the primary search
PrimaryCall(q, t) == retrieveFromWeaviate(q, t, PrimaryLimit)

\* the full scan called without its tenant argument
FallbackCall_DefaultTenant(q, t) == fetchAllFromWeaviate(DefaultTenant)

\* a fallback that searches by keyword once more, with the scan's limit
FallbackCall_Keyword(q, t) == retrieveFromWeaviate(q, t, ScanLimit)

\* the fallback of ragGenerate: the full scan
FallbackCall(q, t) == fetchAllFromWeaviate(t)

\* the log with its last call settled
SettleCall(log, outcome, objects) ==
  [log EXCEPT ![Len(log)].outcome = outcome, ![Len(log)].objects = objects]

\* ragGenerate without the fallback: an empty primary search gives the canned
\* answer at once
RagContinue_NoFallback(r) ==
  IF r.thrown # Null
  THEN [r EXCEPT !.pc = "rejected", !.error = r.thrown]
  ELSE IF r.docs = << >>
  THEN [r EXCEPT !.pc = "fulfilled", !.data = EmptyRagData]
  ELSE [r EXCEPT !.pc = "synth"]

\* ragGenerate without the second emptiness check: it asks for the synthesis
\* whatever the full scan returned
RagContinue_NoRecheck(r) ==
  IF r.thrown # Null
  THEN [r EXCEPT !.pc = "rejected", !.error = r.thrown]
  ELSE IF r.docs = << >> /\ ~r.scan
  THEN [r EXCEPT !.pc = "connect", !.scan = TRUE]
  ELSE [r EXCEPT !.pc = "synth"]

\* ragGenerate running the full scan after every primary search
RagContinue_AlwaysScan(r) ==
  IF r.thrown # Null
  THEN [r EXCEPT !.pc = "rejected", !.error = r.thrown]
  ELSE IF ~r.scan
  THEN [r EXCEPT !.pc = "connect", !.scan = TRUE]
  ELSE IF r.docs = << >>
  THEN [r EXCEPT !.pc = "fulfilled", !.data = EmptyRagData]
  ELSE [r EXCEPT !.pc = "synth"]

\* ragGenerate trying the full scan when the primary search has failed
RagContinue_RetryOnError(r) ==
  IF r.thrown # Null /\ ~r.scan
  THEN [r EXCEPT !.pc = "connect", !.scan = TRUE, !.thrown = Null]
  ELSE IF r.thrown # Null
  THEN [r EXCEPT !.pc = "rejected", !.error = r.thrown]
  ELSE IF r.docs = << >> /\ ~r.scan
  THEN [r EXCEPT !.pc = "connect", !.scan = TRUE]
  ELSE IF r.docs = << >>
  THEN [r EXCEPT !.pc = "fulfilled", !.data = EmptyRagData]
  ELSE [r EXCEPT !.pc = "synth"]

\* ragGenerate treating an empty retrieval as a failure
RagContinue_EmptyThrows(r) ==
  IF r.thrown # Null
  THEN [r EXCEPT !.pc = "rejected", !.error = r.thrown]
  ELSE IF r.docs = << >> /\ ~r.scan
  THEN [r EXCEPT !.pc = "connect", !.scan = TRUE]
  ELSE IF r.docs = << >>
  THEN [r EXCEPT !.pc = "rejected", !.error = CannedAnswer]
  ELSE [r EXCEPT !.pc = "synth"]

\* ragGenerate taking a failed store call for an empty result
RagContinue_FailureAsEmpty(r) ==
  IF r.docs = << >> /\ ~r.scan
  THEN [r EXCEPT !.pc = "connect", !.scan = TRUE, !.thrown = Null]
  ELSE IF r.docs = << >>
  THEN [r EXCEPT !.pc = "fulfilled", !.thrown = Null, !.data = EmptyRagData]
  ELSE [r EXCEPT !.pc = "synth"]

\* ragGenerate once the store function it awaited has closed its client:
\* it rethrows, falls back to the full scan, returns the canned answer, or
\* asks for the synthesis
RagContinue(r) ==
  IF r.thrown # Null
  THEN [r EXCEPT !.pc = "rejected", !.error = r.thrown]
  ELSE IF r.docs = << >> /\ ~r.scan
  THEN [r EXCEPT !.pc = "connect", !.scan = TRUE]
  ELSE IF r.docs = << >>
  THEN [r EXCEPT !.pc = "fulfilled", !.data = EmptyRagData]
  ELSE [r EXCEPT !.pc = "synth"]


\* fileIds collected without repetitions
RagData_Dedup(answer, docs) ==
  LET keep == {i \in 1..Len(docs) :
                 \A j \in 1..(i - 1) : docs[j].fileId # docs[i].fileId}
      nth(k) == CHOOSE i \in keep : Cardinality({j \in keep : j < i}) = k - 1
  IN [answer |-> answer,
      fileIds |-> [k \in 1..Cardinality(keep) |-> docs[nth(k)].fileId],
      references |-> [i \in 1..Len(docs) |->
                        [fileId |-> docs[i].fileId,
                         question |-> docs[i].question,
                         answer |-> docs[i].answer]]]

\* the value ragGenerate returns after synthesis
RagData(answer, docs) ==
  [answer |-> answer,
   fileIds |-> [i \in 1..Len(docs) |-> docs[i].fileId],
   references |-> [i \in 1..Len(docs) |->
                     [fileId |-> docs[i].fileId,
                      question |-> docs[i].question,
                      answer |-> docs[i].answer]]]

\* ------------------------------------------------------------------------
\* delegateQuery (delegating-agent.js) and delegatingNode (agent-graph.js)
\* ------------------------------------------------------------------------

ChartSuffix == "I've also generated a chart visualization for you."
ChartOnlyAnswer == "I've generated the chart visualization as requested."
RephraseAnswer ==
  "I'm not sure how to handle this query. Could you please rephrase it?"
GenericErrorAnswer ==
  "I encountered an error processing your request. Please try again."

\* the state the graph starts from, and returns when nothing fills it
InitialState ==
  [answer |-> << >>, fileIds |-> << >>, references |-> << >>,
   chartConfig |-> NullChart, error |-> Null]

\* the value a task's promise resolves to: { type, data }
RagResult(r) ==
  [type |-> "rag", answer |-> r.data.answer, fileIds |-> r.data.fileIds,
   references |-> r.data.references, chartConfig |-> NullChart]
ChartResult(c) ==
  [type |-> "chart", answer |-> Null, fileIds |-> << >>,
   references |-> << >>, chartConfig |-> c.data]
DirectResult(d) ==
  [type |-> "direct", answer |-> d.answer, fileIds |-> << >>,
   references |-> << >>, chartConfig |-> NullChart]

\* results of Promise.all(tasks): the values of the tasks in the order they
\* were pushed (r, c, d are the promises; a task that was not scheduled left
\* no result)
TaskResults(r, c, d) ==
  (IF r.pc = "fulfilled" THEN <<RagResult(r)>> ELSE << >>)
  \o (IF c.pc = "fulfilled" THEN <<ChartResult(c)>> ELSE << >>)
  \o (IF d.pc = "fulfilled" THEN <<DirectResult(d)>> ELSE << >>)

\* a merge that takes the first result for the retrieval and the second for
\* the chart, whatever their types
MergeResults_Positional(results) ==
  IF Len(results) = 2
  THEN [answer |-> <<results[1].answer, ChartSuffix>>,
        fileIds |-> results[1].fileIds,
        references |-> results[1].references,
        chartConfig |-> results[2].chartConfig]
  ELSE IF Len(results) = 1 /\ results[1].type = "rag"
  THEN [answer |-> <<results[1].answer>>, fileIds |-> results[1].fileIds,
        references |-> results[1].references, chartConfig |-> NullChart]
  ELSE IF Len(results) = 1 /\ results[1].type = "chart"
  THEN [answer |-> <<ChartOnlyAnswer>>, fileIds |-> << >>,
        references |-> << >>, chartConfig |-> results[1].chartConfig]
  ELSE IF Len(results) = 1
  THEN [answer |-> <<results[1].answer>>, fileIds |-> << >>,
        references |-> << >>, chartConfig |-> NullChart]
  ELSE [answer |-> <<RephraseAnswer>>, fileIds |-> << >>,
        references |-> << >>, chartConfig |-> NullChart]

\* a merge that tests for the chart before the retrieval
MergeResults_ChartFirst(results) ==
  LET At(type) == {i \in 1..Len(results) : results[i].type = type}
      Data(type) == results[CHOOSE i \in At(type) : \A j \in At(type) : j <= i]
  IN IF At("chart") # {}
     THEN [answer |-> <<ChartOnlyAnswer>>, fileIds |-> << >>,
           references |-> << >>, chartConfig |-> Data("chart").chartConfig]
     ELSE IF At("rag") # {}
     THEN [answer |-> <<Data("rag").answer>>,
           fileIds |-> Data("rag").fileIds,
           references |-> Data("rag").references, chartConfig |-> NullChart]
     ELSE IF At("direct") # {}
     THEN [answer |-> <<Data("direct").answer>>, fileIds |-> << >>,
           references |-> << >>, chartConfig |-> NullChart]
     ELSE [answer |-> <<RephraseAnswer>>, fileIds |-> << >>,
           references |-> << >>, chartConfig |-> NullChart]

\* Step 3 of delegateQuery: results.forEach keeps the data of each type (the
\* last one of a type wins), then the response is built from what is there
MergeResults(results) ==
  LET At(type) == {i \in 1..Len(results) : results[i].type = type}
      Data(type) == results[CHOOSE i \in At(type) : \A j \in At(type) : j <= i]
  IN IF At("rag") # {} /\ At("chart") # {}
     THEN [answer |-> <<Data("rag").answer, ChartSuffix>>,
           fileIds |-> Data("rag").fileIds,
           references |-> Data("rag").references,
           chartConfig |-> Data("chart").chartConfig]
     ELSE IF At("rag") # {}
     THEN [answer |-> <<Data("rag").answer>>,
           fileIds |-> Data("rag").fileIds,
           references |-> Data("rag").references, chartConfig |-> NullChart]
     ELSE IF At("chart") # {}
     THEN [answer |-> <<ChartOnlyAnswer>>, fileIds |-> << >>,
           references |-> << >>, chartConfig |-> Data("chart").chartConfig]
     ELSE IF At("direct") # {}
     THEN [answer |-> <<Data("direct").answer>>, fileIds |-> << >>,
           references |-> << >>, chartConfig |-> NullChart]
     ELSE [answer |-> <<RephraseAnswer>>, fileIds |-> << >>,
           references |-> << >>, chartConfig |-> NullChart]

\* Steps 2 and 3 of delegateQuery on settled promises: the response
Merge(r, c, d) == MergeResults(TaskResults(r, c, d))

\* delegatingNode: the state it returns when delegateQuery returned response
NodeSuccess(response) ==
  [answer |-> response.answer, fileIds |-> response.fileIds,
   references |-> response.references, chartConfig |-> response.chartConfig,
   error |-> InitialState.error]

\* delegatingNode: the state it returns when delegateQuery threw
NodeFailure(message) ==
  [InitialState EXCEPT !.error = message, !.answer = <<GenericErrorAnswer>>]

\* a join that gives up on a promise that never settles
Settled_Hung(p) == p.pc \in {"none", "fulfilled", "hung"}

\* a join that never hears of a fulfilled task
Settled_OnlyAbsent(p) == p.pc = "none"

\* whether a promise no longer keeps Promise.all from resolving
Settled(p) == p.pc \in {"none", "fulfilled"}

\* Promise.race in place of Promise.all: the first fulfilled task resolves it
PromiseAll_Race(o, res, r, c, d) ==
  IF o # "waiting" THEN <<o, res>>
  ELSE IF r.pc = "rejected" THEN <<"threw", NodeFailure(r.error)>>
  ELSE IF d.pc = "rejected" THEN <<"threw", NodeFailure(d.error)>>
  ELSE IF \/ "fulfilled" \in {r.pc, c.pc, d.pc}
          \/ Settled(r) /\ Settled(c) /\ Settled(d)
  THEN <<"returned", NodeSuccess(Merge(r, c, d))>>
  ELSE <<o, res>>

\* Promise.allSettled in place of Promise.all: a failed task is left out of
\* the merge
PromiseAll_Partial(o, res, r, c, d) ==
  IF o # "waiting" THEN <<o, res>>
  ELSE IF \A p \in {r.pc, c.pc, d.pc} : p \in {"none", "fulfilled", "rejected"}
  THEN <<"returned", NodeSuccess(Merge(r, c, d))>>
  ELSE <<o, res>>

\* a join that still listens after it failed: a sibling's late result is
\* written into the state already returned
PromiseAll_LateFill(o, res, r, c, d) ==
  IF o = "threw" /\ c.pc = "fulfilled"
  THEN <<o, [res EXCEPT !.chartConfig = c.data]>>
  ELSE IF o # "waiting" THEN <<o, res>>
  ELSE IF r.pc = "rejected" THEN <<"threw", NodeFailure(r.error)>>
  ELSE IF d.pc = "rejected" THEN <<"threw", NodeFailure(d.error)>>
  ELSE IF Settled(r) /\ Settled(c) /\ Settled(d)
  THEN <<"returned", NodeSuccess(Merge(r, c, d))>>
  ELSE <<o, res>>

\* await Promise.all(tasks) seen from delegateQuery in state o, the promises
\* being r, c, d: <<state of delegateQuery, state returned to the caller>>
PromiseAll(o, res, r, c, d) ==
  IF o # "waiting" THEN <<o, res>>
  ELSE IF r.pc = "rejected" THEN <<"threw", NodeFailure(r.error)>>
  ELSE IF d.pc = "rejected" THEN <<"threw", NodeFailure(d.error)>>
  ELSE IF Settled(r) /\ Settled(c) /\ Settled(d)
  THEN <<"returned", NodeSuccess(Merge(r, c, d))>>
  ELSE <<o, res>>

\* ------------------------------------------------------------------------
\* Replies of the language model
\* ------------------------------------------------------------------------

Flag(k) == Member(k, 1)
NoFlag(k) == Member(k, 0)

\* completions the classification request may get
ClassifyTexts ==
  { <<LB, Flag("needsRAG"), RB>>,
    <<LB, Flag("needsChart"), RB>>,
    <<LB, Flag("needsDirect"), RB>>,
    <<LB, Flag("needsChart"), Flag("needsRAG"), RB>>,
    <<LB, Flag("needsChart"), Flag("needsDirect"), RB>>,
    <<LB, Flag("needsChart"), Flag("needsRAG"), Flag("needsDirect"), RB>>,
    <<LB, NoFlag("needsChart"), NoFlag("needsRAG"), NoFlag("needsDirect"), RB>>,
    <<LB, RB>>,
    <<TXT>>,
    << >>,
    <<LB, TXT, RB>>,
    <<RB, TXT, LB>>,
    <<TXT, LB, Flag("needsDirect"), RB, TXT>>,
    <<LB, Flag("needsChart"), RB, TXT, RB>> }

ClassifyReplies == {Completion(t) : t \in ClassifyTexts} \cup {GatewayFailure}

\* completions the chart-extraction request may get
ChartTexts ==
  { <<LB, Member("chartType", t), Member("title", 1), Member("labels", n),
      Member("data", m), RB>> :
      t \in 1..Len(ChartTypes), n \in 0..MaxSeries, m \in 0..MaxSeries }
  \cup
  { <<LB, RB>>,
    <<LB, Member("labels", 2), RB>>,
    <<LB, Member("chartType", 2), Member("data", 3), RB>>,
    <<TXT>>,
    <<LB, TXT, RB>>,
    <<LB, Member("chartType", 3), RB, TXT, RB>> }

ChartReplies == {Completion(t) : t \in ChartTexts} \cup {GatewayFailure}

\* ------------------------------------------------------------------------
\* Initial state: runAgentGraph(query, options) has been called and
\* analyzeQuery awaits the classification completion
\* ------------------------------------------------------------------------

Init ==
  /\ store \in {StoreAfter(k) : k \in 0..Len(qaEntries)}
  /\ query \in Queries
  /\ optTenant \in Tenants \cup {Null}
  /\ orch = "classifying"
  /\ clsReply = NoReply
  /\ decision = NoDecision
  /\ rag = RagIdle
  /\ chart = ChartIdle
  /\ chartReply = NoReply
  /\ direct = DirectIdle
  /\ conns = 0
  /\ storeLog = << >>
  /\ llmLog = <<"classify">>
  /\ settleLog = << >>
  /\ result = InitialState
  /\ currentTenant = DefaultTenant
  /\ peer = PeerIdle
  /\ schema = SeededSchema
  /\ setup = SetupIdle

\* ------------------------------------------------------------------------
\* Actions
\* ------------------------------------------------------------------------

\* the continuation of delegateQuery after a promise changed: Promise.all,
\* the merge or the catch, and delegatingNode's return
Join(o, r, c, d) ==
  LET j == PromiseAll(o, result, r, c, d)
      Now(old, new, tag) ==
        IF new.pc \in {"fulfilled", "rejected"} /\ old.pc # new.pc
        THEN <<tag>> ELSE << >>
  IN /\ orch' = j[1]
     /\ result' = j[2]
     /\ settleLog' = settleLog \o Now(rag, r, "rag") \o Now(chart, c, "chart")
                                \o Now(direct, d, "direct")

\* Step 2 of delegateQuery: the tasks a decision schedules
ScheduleRag(dec) ==
  IF dec.needsRAG THEN [RagIdle EXCEPT !.pc = "connect"] ELSE RagIdle
\* a chart task scheduled for every query
ScheduleChart_Always(dec) == [ChartIdle EXCEPT !.pc = "extract"]
ScheduleChart(dec) ==
  IF dec.needsChart THEN [ChartIdle EXCEPT !.pc = "extract"] ELSE ChartIdle
\* a direct answer scheduled next to the other tools
ScheduleDirect_Alongside(dec) ==
  IF dec.needsDirect THEN [DirectIdle EXCEPT !.pc = "invoke"] ELSE DirectIdle
\* a direct answer scheduled whenever no tool is needed
ScheduleDirect_Always(dec) ==
  IF ~dec.needsRAG /\ ~dec.needsChart
  THEN [DirectIdle EXCEPT !.pc = "invoke"] ELSE DirectIdle
ScheduleDirect(dec) ==
  IF dec.needsDirect /\ ~dec.needsRAG /\ ~dec.needsChart
  THEN [DirectIdle EXCEPT !.pc = "invoke"] ELSE DirectIdle

\* the classification completion arrives (or the call fails): analyzeQuery
\* returns and delegateQuery schedules its tasks and awaits them
ClassifyReply ==
  /\ orch = "classifying"
  /\ \E reply \in ClassifyReplies :
       LET dec == analyzeQuery(reply)
           r == ScheduleRag(dec)
           c == ScheduleChart(dec)
           d == ScheduleDirect(dec)
       IN /\ clsReply' = reply
          /\ decision' = dec
          /\ rag' = r
          /\ chart' = c
          /\ direct' = d
          /\ llmLog' = llmLog
                       \o (IF c.pc = "extract" THEN <<"chart">> ELSE << >>)
                       \o (IF d.pc = "invoke" THEN <<"direct">> ELSE << >>)
          /\ storeLog' = IF r.pc = "connect"
                         THEN <<PrimaryCall(query, tenant)>> ELSE << >>
          /\ Join("waiting", r, c, d)
  /\ UNCHANGED <<envVars, store, query, optTenant, chartReply, conns>>

\* getClient() resolves: the client is open and the operation is put to the
\* store
RagConnected ==
  /\ rag.pc = "connect"
  /\ rag' = [rag EXCEPT !.pc = "query"]
  /\ conns' = conns + 1
  /\ UNCHANGED <<envVars, store, query, optTenant, orch, clsReply, decision, chart,
                 chartReply, direct, storeLog, llmLog, settleLog,
                 result>>

\* getClient() rejects: nothing was opened, ragGenerate rethrows
RagConnectFailed ==
  /\ rag.pc = "connect"
  /\ rag' = [rag EXCEPT !.pc = "rejected", !.error = ErrStore]
  /\ storeLog' = SettleCall(storeLog, "rejected", << >>)
  /\ Join(orch, rag', chart, direct)
  /\ UNCHANGED <<envVars, store, query, optTenant, clsReply, decision, chart,
                 chartReply, direct, conns, llmLog>>

\* the store answers the issued operation; finally: client.close() starts
RagQueryReply ==
  /\ rag.pc = "query"
  /\ rag' = [rag EXCEPT !.pc = "close",
                        !.docs = StoreReply(store, storeLog[Len(storeLog)])]
  /\ UNCHANGED <<envVars, store, query, optTenant, orch, clsReply, decision, chart,
                 chartReply, direct, conns, storeLog, llmLog, settleLog,
                 result>>

\* a store function without the finally block: the failure is rethrown with
\* the client left open
RagQueryFailed_NoClose ==
  /\ rag.pc = "query"
  /\ rag' = [rag EXCEPT !.pc = "rejected", !.thrown = ErrStore,
                        !.error = ErrStore]
  /\ storeLog' = SettleCall(storeLog, "rejected", << >>)
  /\ Join(orch, rag', chart, direct)
  /\ UNCHANGED <<envVars, store, query, optTenant, clsReply, decision, chart,
                 chartReply, direct, conns, llmLog>>

\* the issued operation fails; catch rethrows, finally: client.close() starts
RagQueryFailed ==
  /\ rag.pc = "query"
  /\ rag' = [rag EXCEPT !.pc = "close", !.thrown = ErrStore]
  /\ UNCHANGED <<envVars, store, query, optTenant, orch, clsReply, decision, chart,
                 chartReply, direct, conns, storeLog, llmLog, settleLog,
                 result>>

\* client.close() resolves: the store function settles and ragGenerate goes on
RagClosed ==
  /\ rag.pc = "close"
  /\ conns' = conns - 1
  /\ rag' = RagContinue(rag)
  /\ LET settled == IF rag.thrown # Null
                    THEN SettleCall(storeLog, "rejected", << >>)
                    ELSE SettleCall(storeLog, "resolved", rag.docs)
     IN storeLog' = IF rag'.pc = "connect"
                    THEN Append(settled, FallbackCall(query, tenant))
                    ELSE settled
  /\ llmLog' = IF rag'.pc = "synth" THEN Append(llmLog, "synth") ELSE llmLog
  /\ Join(orch, rag', chart, direct)
  /\ UNCHANGED <<envVars, store, query, optTenant, clsReply, decision, chart,
                 chartReply, direct>>

\* the synthesis completion arrives: ragGenerate returns
RagSynthReply ==
  /\ rag.pc = "synth"
  /\ rag' = [rag EXCEPT !.pc = "fulfilled",
                        !.data = RagData(SynthAnswer, rag.docs)]
  /\ Join(orch, rag', chart, direct)
  /\ UNCHANGED <<envVars, store, query, optTenant, clsReply, decision, chart,
                 chartReply, direct, conns, storeLog, llmLog>>

\* a failed synthesis absorbed into the canned answer
RagSynthFailed_Degraded ==
  /\ rag.pc = "synth"
  /\ rag' = [rag EXCEPT !.pc = "fulfilled",
                        !.error = ErrLlm,
                        !.data = RagData(CannedAnswer, rag.docs)]
  /\ Join(orch, rag', chart, direct)
  /\ UNCHANGED <<envVars, store, query, optTenant, clsReply, decision, chart,
                 chartReply, direct, conns, storeLog, llmLog>>

\* the synthesis call fails: ragGenerate rethrows
RagSynthFailed ==
  /\ rag.pc = "synth"
  /\ rag' = [rag EXCEPT !.pc = "rejected", !.error = ErrLlm]
  /\ Join(orch, rag', chart, direct)
  /\ UNCHANGED <<envVars, store, query, optTenant, clsReply, decision, chart,
                 chartReply, direct, conns, storeLog, llmLog>>

\* the call ragGenerate awaits never settles
RagHang ==
  /\ rag.pc \in {"connect", "query", "close", "synth"}
  /\ rag' = [rag EXCEPT !.pc = "hung"]
  /\ UNCHANGED <<envVars, store, query, optTenant, orch, clsReply, decision, chart,
                 chartReply, direct, conns, storeLog, llmLog, settleLog,
                 result>>

\* the chart-extraction completion arrives (or the call fails):
\* extractChartParams returns and mockGenerateChart builds the configuration
ChartReply ==
  /\ chart.pc = "extract"
  /\ \E reply \in ChartReplies :
       /\ chartReply' = reply
       /\ chart' = [chart EXCEPT
                      !.pc = "fulfilled",
                      !.data = mockGenerateChart(extractChartParams(reply))]
  /\ Join(orch, rag, chart', direct)
  /\ UNCHANGED <<envVars, store, query, optTenant, clsReply, decision, rag, direct,
                 conns, storeLog, llmLog>>

\* the chart-extraction call never settles
ChartHang ==
  /\ chart.pc = "extract"
  /\ chart' = [chart EXCEPT !.pc = "hung"]
  /\ UNCHANGED <<envVars, store, query, optTenant, orch, clsReply, decision, rag,
                 chartReply, direct, conns, storeLog, llmLog, settleLog,
                 result>>

\* the direct-answer completion arrives: handleDirectAnswer returns
DirectReply ==
  /\ direct.pc = "invoke"
  /\ direct' = [direct EXCEPT !.pc = "fulfilled", !.answer = DirectAnswer]
  /\ Join(orch, rag, chart, direct')
  /\ UNCHANGED <<envVars, store, query, optTenant, clsReply, decision, rag, chart,
                 chartReply, conns, storeLog, llmLog>>

\* the direct-answer call fails: handleDirectAnswer rejects
DirectFailed ==
  /\ direct.pc = "invoke"
  /\ direct' = [direct EXCEPT !.pc = "rejected", !.error = ErrLlm]
  /\ Join(orch, rag, chart, direct')
  /\ UNCHANGED <<envVars, store, query, optTenant, clsReply, decision, rag, chart,
                 chartReply, conns, storeLog, llmLog>>

\* the direct-answer call never settles
DirectHang ==
  /\ direct.pc = "invoke"
  /\ direct' = [direct EXCEPT !.pc = "hung"]
  /\ UNCHANGED <<envVars, store, query, optTenant, orch, clsReply, decision, rag,
                 chart, chartReply, conns, storeLog, llmLog, settleLog,
                 result>>

Next ==
  \/ ClassifyReply
  \/ RagConnected
  \/ RagConnectFailed
  \/ RagQueryReply
  \/ RagQueryFailed
  \/ RagClosed
  \/ RagSynthReply
  \/ RagSynthFailed
  \/ RagHang
  \/ ChartReply
  \/ ChartHang
  \/ DirectReply
  \/ DirectFailed
  \/ DirectHang

Spec == Init /\ [][Next]_vars

\* ------------------------------------------------------------------------
\* A request all of whose gateway calls settle: every call returns or fails,
\* and a call that can settle eventually does
\* ------------------------------------------------------------------------

LiveNext ==
  \/ ClassifyReply
  \/ RagConnected
  \/ RagConnectFailed
  \/ RagQueryReply
  \/ RagQueryFailed
  \/ RagClosed
  \/ RagSynthReply
  \/ RagSynthFailed
  \/ ChartReply
  \/ DirectReply
  \/ DirectFailed

LiveSpec == Init /\ [][LiveNext]_vars /\ WF_vars(LiveNext)

\* ------------------------------------------------------------------------
\* Steps 2 to 4 of ragGenerate on any list of retrieved documents: the
\* request is a RAG-only one whose primary search has just returned
\* retrievedDocs, a list of objects of the tenant in which an object may
\* occur more than once
\* ------------------------------------------------------------------------

\* the non-empty lists of at most n elements of S
SeqsUpTo(S, n) == UNION {[1..k -> S] : k \in 1..n}

SynthInit ==
  /\ store = SeededStore
  /\ query \in Queries
  /\ optTenant \in Tenants \cup {Null}
  /\ orch = "waiting"
  /\ clsReply = GatewayFailure
  /\ decision = analyzeQuery(GatewayFailure)
  /\ \E retrievedDocs \in SeqsUpTo(Range(SeededStore[tenant]), MaxDocs) :
       /\ rag = [RagIdle EXCEPT !.pc = "synth", !.docs = retrievedDocs]
       /\ storeLog = SettleCall(<<PrimaryCall(query, tenant)>>, "resolved",
                                retrievedDocs)
  /\ chart = ChartIdle
  /\ chartReply = NoReply
  /\ direct = DirectIdle
  /\ conns = 0
  /\ llmLog = <<"classify", "synth">>
  /\ settleLog = << >>
  /\ result = InitialState
  /\ currentTenant = DefaultTenant
  /\ peer = PeerIdle
  /\ schema = SeededSchema
  /\ setup = SetupIdle

SynthNext ==
  \/ RagSynthReply
  \/ RagSynthFailed

SynthSpec == SynthInit /\ [][SynthNext]_vars

\* ------------------------------------------------------------------------
\* The interactive shell (index.js: interactiveMode): query lines and tenant
\* commands arrive while earlier queries are still being answered
\* ------------------------------------------------------------------------

\* the query line followed in full, and the lines another request may carry
ShellQueries == {QRomeo}
PeerQueries == {QFrance, QHello}

\* the identifiers a tenant command may name
TenantIds == Tenants \cup {"tenant4"}

ShellInit ==
  /\ store = SeededStore
  /\ schema = SeededSchema
  /\ setup = SetupIdle
  /\ currentTenant = DefaultTenant
  /\ peer = PeerIdle
  /\ query \in ShellQueries
  /\ optTenant = Null
  /\ orch = "idle"
  /\ clsReply = NoReply
  /\ decision = NoDecision
  /\ rag = RagIdle
  /\ chart = ChartIdle
  /\ chartReply = NoReply
  /\ direct = DirectIdle
  /\ conns = 0
  /\ storeLog = << >>
  /\ llmLog = << >>
  /\ settleLog = << >>
  /\ result = InitialState

\* the line 'tenant <id>': a known tenant becomes the current one
TenantCommand ==
  /\ \E id \in TenantIds :
       currentTenant' = IF id \in Tenants THEN id ELSE currentTenant
  /\ UNCHANGED <<store, query, optTenant, orch, clsReply, decision, rag,
                 chart, chartReply, direct, conns, storeLog, llmLog,
                 settleLog, result, peer, schema, setup>>

\* the query line is entered: runAgentGraph(input, { tenant: currentTenant })
\* runs up to the classification request
SubmitQuery ==
  /\ orch = "idle"
  /\ orch' = "classifying"
  /\ optTenant' = currentTenant
  /\ llmLog' = <<"classify">>
  /\ UNCHANGED <<envVars, store, query, clsReply, decision, rag, chart,
                 chartReply, direct, conns, storeLog, settleLog, result>>

\* a query line shared by every request: the line entered last replaces it
PeerSubmit_SharedQuery ==
  /\ peer.pc = "idle"
  /\ \E q \in PeerQueries :
       /\ peer' = [pc |-> "running", query |-> q, tenant |-> currentTenant]
       /\ query' = q
  /\ UNCHANGED <<store, optTenant, orch, clsReply, decision, rag,
                 chart, chartReply, direct, conns, storeLog, llmLog,
                 settleLog, result, currentTenant, schema, setup>>

\* another query line is entered, before or after the first: its own call
\* runAgentGraph(input, { tenant: currentTenant })
PeerSubmit ==
  /\ peer.pc = "idle"
  /\ \E q \in PeerQueries :
       peer' = [pc |-> "running", query |-> q, tenant |-> currentTenant]
  /\ UNCHANGED <<store, query, optTenant, orch, clsReply, decision, rag,
                 chart, chartReply, direct, conns, storeLog, llmLog,
                 settleLog, result, currentTenant, schema, setup>>

\* the other request's runAgentGraph settles and its answer is displayed
PeerAnswered ==
  /\ peer.pc = "running"
  /\ peer' = [peer EXCEPT !.pc = "answered"]
  /\ UNCHANGED <<store, query, optTenant, orch, clsReply, decision, rag,
                 chart, chartReply, direct, conns, storeLog, llmLog,
                 settleLog, result, currentTenant, schema, setup>>

ShellNext ==
  \/ TenantCommand
  \/ SubmitQuery
  \/ PeerSubmit
  \/ PeerAnswered
  \/ ClassifyReply
  \/ RagConnected
  \/ RagConnectFailed
  \/ RagQueryReply
  \/ RagQueryFailed
  \/ RagClosed
  \/ RagSynthReply
  \/ RagSynthFailed
  \/ RagHang
  \/ ChartReply
  \/ ChartHang
  \/ DirectReply
  \/ DirectFailed
  \/ DirectHang

ShellSpec == ShellInit /\ [][ShellNext]_vars

\* ------------------------------------------------------------------------
\* setup-db (weaviate-setup.js: main, createSchema, insertData), run on an
\* empty store and run again on whatever an earlier run left behind
\* ------------------------------------------------------------------------

\* the tenants insertData creates, in order
SetupTenants == <<"tenant1", "tenant2", "tenant3">>

\* a store without the collection
NoSchema == [exists |-> FALSE, tenants |-> {}]
EmptyStore == [t \in Tenants |-> << >>]

SetupInit ==
  /\ store = EmptyStore
  /\ schema = NoSchema
  /\ setup = SetupIdle
  /\ currentTenant = DefaultTenant
  /\ peer = PeerIdle
  /\ query = QHello
  /\ optTenant = Null
  /\ orch = "idle"
  /\ clsReply = NoReply
  /\ decision = NoDecision
  /\ rag = RagIdle
  /\ chart = ChartIdle
  /\ chartReply = NoReply
  /\ direct = DirectIdle
  /\ conns = 0
  /\ storeLog = << >>
  /\ llmLog = << >>
  /\ settleLog = << >>
  /\ result = InitialState

\* what no step of setup-db touches
setupFrame ==
  <<query, optTenant, orch, clsReply, decision, rag, chart, chartReply,
    direct, storeLog, llmLog, settleLog, result, currentTenant, peer>>

\* npm run setup-db: main calls createSchema, which asks for a client
SetupStart ==
  /\ setup.pc \in {"idle", "done", "failed"}
  /\ setup.runs < MaxRuns
  /\ setup' = [pc |-> "schemaConnect", runs |-> setup.runs + 1, next |-> 1,
               exists |-> FALSE]
  /\ UNCHANGED <<setupFrame, store, schema, conns>>

\* createSchema: getClient() resolves, collections.exists is asked
SchemaConnected ==
  /\ setup.pc = "schemaConnect"
  /\ conns' = conns + 1
  /\ setup' = [setup EXCEPT !.pc = "exists"]
  /\ UNCHANGED <<setupFrame, store, schema>>

\* createSchema keeping a collection it finds, with all it holds
SchemaExists_KeepExisting ==
  /\ setup.pc = "exists"
  /\ setup' = [setup EXCEPT !.exists = schema.exists,
                            !.pc = IF schema.exists THEN "schemaClose"
                                   ELSE "create"]
  /\ UNCHANGED <<setupFrame, store, schema, conns>>

\* createSchema: collections.exists answers; an existing collection is to be
\* deleted first
SchemaExists ==
  /\ setup.pc = "exists"
  /\ setup' = [setup EXCEPT !.exists = schema.exists,
                            !.pc = IF schema.exists THEN "delete"
                                   ELSE "create"]
  /\ UNCHANGED <<setupFrame, store, schema, conns>>

\* createSchema: collections.delete drops the collection, its tenants and
\* their objects
SchemaDelete ==
  /\ setup.pc = "delete"
  /\ schema' = NoSchema
  /\ store' = EmptyStore
  /\ setup' = [setup EXCEPT !.pc = "create"]
  /\ UNCHANGED <<setupFrame, conns>>

\* createSchema: collections.create, then finally: client.close() starts
SchemaCreate ==
  /\ setup.pc = "create"
  /\ schema' = [schema EXCEPT !.exists = TRUE]
  /\ setup' = [setup EXCEPT !.pc = "schemaClose"]
  /\ UNCHANGED <<setupFrame, store, conns>>

\* createSchema returns; main calls insertData, which asks for a client
SchemaClosed ==
  /\ setup.pc = "schemaClose"
  /\ conns' = conns - 1
  /\ setup' = [setup EXCEPT !.pc = "insertConnect"]
  /\ UNCHANGED <<setupFrame, store, schema>>

\* insertData: getClient() resolves, the tenant loop starts
InsertConnected ==
  /\ setup.pc = "insertConnect"
  /\ conns' = conns + 1
  /\ setup' = [setup EXCEPT !.pc = "tenants", !.next = 1]
  /\ UNCHANGED <<setupFrame, store, schema>>

\* insertData: collection.tenants.create for the next tenant
TenantCreate ==
  /\ setup.pc = "tenants"
  /\ schema' = [schema EXCEPT !.tenants = @ \cup {SetupTenants[setup.next]}]
  /\ setup' = IF setup.next = Len(SetupTenants)
              THEN [setup EXCEPT !.pc = "insert", !.next = 1]
              ELSE [setup EXCEPT !.next = @ + 1]
  /\ UNCHANGED <<setupFrame, store, conns>>

\* insertData: data.insert of the next entry into its tenant; after the
\* last one, finally: client.close() starts
InsertEntry ==
  /\ setup.pc = "insert"
  /\ LET e == qaEntries[setup.next]
     IN store' = [store EXCEPT ![e.tenant] = Append(@, DocOf(e))]
  /\ setup' = IF setup.next = Len(qaEntries)
              THEN [setup EXCEPT !.pc = "insertClose"]
              ELSE [setup EXCEPT !.next = @ + 1]
  /\ UNCHANGED <<setupFrame, schema, conns>>

\* insertData returns; the test queries of testSetup change nothing
InsertClosed ==
  /\ setup.pc = "insertClose"
  /\ conns' = conns - 1
  /\ setup' = [setup EXCEPT !.pc = "done"]
  /\ UNCHANGED <<setupFrame, store, schema>>

\* a call of the store client fails: catch rethrows, finally closes the
\* client if one was opened, main exits with 'Setup failed'
SetupFailed ==
  /\ setup.pc \in {"schemaConnect", "exists", "delete", "create",
                   "insertConnect", "tenants", "insert"}
  /\ conns' = 0
  /\ setup' = [setup EXCEPT !.pc = "failed"]
  /\ UNCHANGED <<setupFrame, store, schema>>

SetupNext ==
  \/ SetupStart
  \/ SchemaConnected
  \/ SchemaExists
  \/ SchemaDelete
  \/ SchemaCreate
  \/ SchemaClosed
  \/ InsertConnected
  \/ TenantCreate
  \/ InsertEntry
  \/ InsertClosed
  \/ SetupFailed

SetupSpec == SetupInit /\ [][SetupNext]_vars

\* ------------------------------------------------------------------------
\* Properties
\* ------------------------------------------------------------------------

\* delegateQuery has returned or thrown
Finished == orch \in {"returned", "threw"}

\* a promise that is no longer pending
Done(p) == p.pc \in {"none", "fulfilled", "rejected"}

AnyRejected == rag.pc = "rejected" \/ direct.pc = "rejected"
AnyHung == "hung" \in {rag.pc, chart.pc, direct.pc}
AnyFlag(dec) == dec.needsRAG \/ dec.needsChart \/ dec.needsDirect

FileIdsOf(docs) == [i \in 1..Len(docs) |-> docs[i].fileId]

\* C1 as stated: delegateQuery neither returns nor fails before every
\* scheduled task has settled.
C1_JoinWaitsForAll == Finished => Done(rag) /\ Done(chart) /\ Done(direct)

\* C1 amended: delegateQuery returns only when every scheduled task has
\* fulfilled, and it fails exactly when a scheduled task has failed, at
\* once, whether or not the other task is still pending.
C1_JoinFailFast ==
  /\ orch = "returned" => Settled(rag) /\ Settled(chart) /\ Settled(direct)
  /\ orch = "threw" <=> AnyRejected
  /\ orch = "waiting" =>
       ~(Settled(rag) /\ Settled(chart) /\ Settled(direct))

C1_Witness ==
  /\ orch = "returned"
  /\ rag.pc = "fulfilled"
  /\ chart.pc = "fulfilled"

\* C2: every call of a store function of the request is made for the tenant
\* of the request, and every fileId and reference of the response is that of
\* an object stored under this tenant.
C2_TenantIsolation ==
  /\ \A i \in 1..Len(storeLog) : storeLog[i].tenant = tenant
  /\ \A i \in 1..Len(result.fileIds) :
       \E doc \in Range(store[tenant]) : doc.fileId = result.fileIds[i]
  /\ \A i \in 1..Len(result.references) :
       result.references[i] \in Range(store[tenant])

C2_Witness ==
  /\ tenant = "tenant3"
  /\ Len(storeLog) = 2
  /\ storeLog[2].outcome = "resolved"
  /\ result.fileIds # << >>

\* C3 as stated: on the seeded store the Romeo and Juliet query returns
\* FILE-004 for tenant2 and the canned answer for tenant3.
C3_ScenarioE ==
  (store = SeededStore /\ query = QRomeo /\ rag.pc = "fulfilled") =>
    /\ tenant = "tenant2" => rag.data.fileIds = <<"FILE-004">>
    /\ tenant = "tenant3" => rag.data = EmptyRagData

\* C3 amended: on the seeded store the Romeo and Juliet query returns
\* FILE-004 for tenant2; for tenant3 the keyword search finds nothing, the
\* full scan returns FILE-005, and the answer is synthesised from it:
\* fileIds is FILE-005 and never holds a file of tenant2.
C3_ScenarioEFullScan ==
  (store = SeededStore /\ query = QRomeo /\ rag.pc = "fulfilled") =>
    /\ tenant = "tenant2" => rag.data.fileIds = <<"FILE-004">>
    /\ tenant = "tenant3" =>
         /\ rag.data.fileIds = <<"FILE-005">>
         /\ rag.data.answer = SynthAnswer
         /\ Len(storeLog) = 2

C3_Witness ==
  /\ store = SeededStore
  /\ query = QRomeo
  /\ tenant = "tenant3"
  /\ rag.pc = "fulfilled"

\* C4: the chart configuration of the response has as many labels as data
\* values.
C4_ChartLengthEquality ==
  Len(result.chartConfig.labels) = Len(result.chartConfig.data)

\* C5 as stated: a decision parsed from the completion has a flag set, and
\* the response is never the zero-task answer.
C5_DecisionHasFlag ==
  orch # "classifying" =>
    /\ decision.reasoning = ReasonModel => AnyFlag(decision)
    /\ result.answer # <<RephraseAnswer>>

\* C5 amended: a decision that analyzeQuery defaults to after a parse or
\* gateway failure is RAG only; a decision parsed from the completion may
\* have all three flags false, and exactly then no task is scheduled and
\* delegateQuery returns the fixed rephrase answer with no fileIds, no
\* references and no chart.
C5_ZeroTaskPath ==
  orch # "classifying" =>
    /\ decision.reasoning # ReasonModel =>
         decision = DefaultDecision(decision.reasoning)
    /\ ~AnyFlag(decision) <=>
         (orch = "returned" /\ result.answer = <<RephraseAnswer>>)
    /\ ~AnyFlag(decision) =>
         /\ decision.reasoning = ReasonModel
         /\ rag.pc = "none" /\ chart.pc = "none" /\ direct.pc = "none"
         /\ result = [InitialState EXCEPT !.answer = <<RephraseAnswer>>]

C5_Witness ==
  /\ clsReply.status = "ok"
  /\ ~AnyFlag(decision)
  /\ result.answer = <<RephraseAnswer>>

\* the classification completion has no JSON region, or the region does not
\* parse, or the call failed
ClassifyFailed ==
  \/ clsReply.status = "failed"
  \/ /\ clsReply.status = "ok"
     /\ \/ MatchJson(clsReply.text) = NoMatch
        \/ ~ParsesAsJson(MatchJson(clsReply.text))

\* C6: when the classification completion has no JSON region, or the region
\* does not parse, or the call fails, analyzeQuery returns the RAG-only
\* decision and delegateQuery goes on with it: only ragGenerate is scheduled.
C6_ClassifierFallback ==
  ClassifyFailed =>
    /\ decision.needsRAG /\ ~decision.needsChart /\ ~decision.needsDirect
    /\ rag.pc # "none" /\ chart.pc = "none" /\ direct.pc = "none"

C6_Witness ==
  /\ clsReply = Completion(<<LB, Flag("needsChart"), RB, TXT, RB>>)
  /\ rag.pc = "fulfilled"
  /\ orch = "returned"

\* C7: once a scheduled task has failed the response has an error, no
\* fileIds, no references and no chart, whatever the other task produced; a
\* response without error holds the output of every scheduled task.
C7_AllOrNothing ==
  /\ AnyRejected =>
       /\ result.error # Null
       /\ result.fileIds = << >>
       /\ result.references = << >>
       /\ result.chartConfig = NullChart
  /\ (Finished /\ result.error = Null) =>
       /\ rag.pc # "none" =>
            /\ rag.pc = "fulfilled"
            /\ result.answer[1] = rag.data.answer
            /\ result.fileIds = rag.data.fileIds
            /\ result.references = rag.data.references
       /\ chart.pc # "none" =>
            /\ chart.pc = "fulfilled"
            /\ result.chartConfig = chart.data
       /\ direct.pc # "none" =>
            /\ direct.pc = "fulfilled"
            /\ result.answer = <<direct.answer>>

C7_Witness ==
  /\ rag.pc = "rejected"
  /\ chart.pc = "fulfilled"
  /\ chart.data # NullChart
  /\ result.error # Null

\* C8 as stated: while the call of a scheduled task never settles,
\* delegateQuery neither returns nor fails.
C8_HangBlocksAll == AnyHung => ~Finished

\* C8 amended: while the call of a scheduled task never settles,
\* delegateQuery never returns; it fails exactly when the other scheduled
\* task fails, and otherwise stays pending.
C8_HangBlocksReturn ==
  AnyHung =>
    /\ orch # "returned"
    /\ orch = "threw" <=> AnyRejected
    /\ result.error = Null => result = InitialState

C8_Witness ==
  /\ chart.pc = "hung"
  /\ rag.pc = "fulfilled"
  /\ orch = "waiting"

\* both store functions resolved with no object
BothEmpty ==
  /\ Len(storeLog) = 2
  /\ \A i \in 1..2 :
       storeLog[i].outcome = "resolved" /\ storeLog[i].objects = << >>

\* C9: when the primary search and the full scan both return no object,
\* ragGenerate returns the canned answer with no fileIds and no references,
\* and has asked for no synthesis.
C9_EmptyResultPolicy ==
  BothEmpty =>
    /\ rag.pc = "fulfilled"
    /\ rag.data.answer = CannedAnswer
    /\ rag.data.fileIds = << >>
    /\ rag.data.references = << >>
    /\ \A i \in 1..Len(llmLog) : llmLog[i] # "synth"

C9_Witness ==
  /\ BothEmpty
  /\ orch = "returned"
  /\ result.answer = <<CannedAnswer>>

\* C10: the full scan (limit 100) is called if and only if the primary
\* search (limit 5) has resolved with no object; it comes after the primary
\* search and goes to the same tenant; when the primary search returns an
\* object the full scan is never called and the result is used unchanged.
C10_FallbackOrdering ==
  /\ Len(storeLog) <= 2
  /\ Len(storeLog) >= 1 =>
       /\ storeLog[1].op = "bm25"
       /\ storeLog[1].limit = 5
       /\ storeLog[1].query = query
  /\ Len(storeLog) = 2 <=>
       /\ Len(storeLog) >= 1
       /\ storeLog[1].outcome = "resolved"
       /\ storeLog[1].objects = << >>
  /\ Len(storeLog) = 2 =>
       /\ storeLog[2].op = "fetchObjects"
       /\ storeLog[2].limit = 100
       /\ storeLog[2].tenant = storeLog[1].tenant
  /\ (Len(storeLog) >= 1 /\ storeLog[1].objects # << >>) =>
       /\ storeLog[1].objects = StoreReply(store, storeLog[1])
       /\ rag.docs = storeLog[1].objects
       /\ rag.pc = "fulfilled" =>
            rag.data.fileIds = FileIdsOf(storeLog[1].objects)

C10_Witness ==
  /\ Len(storeLog) = 2
  /\ storeLog[2].outcome = "resolved"
  /\ storeLog[2].objects # << >>
  /\ rag.pc = "fulfilled"

\* number of tasks delegateQuery pushed
Scheduled(p) == p.pc # "none"
TaskCount ==
  (IF Scheduled(rag) THEN 1 ELSE 0) + (IF Scheduled(chart) THEN 1 ELSE 0)
  + (IF Scheduled(direct) THEN 1 ELSE 0)

\* C11: ragGenerate is scheduled iff needsRAG, the chart task iff needsChart,
\* the direct answer iff needsDirect and neither of the other two; the direct
\* answer is never scheduled with another task and at most two tasks are
\* scheduled.
C11_TaskSelection ==
  orch # "classifying" =>
    /\ Scheduled(rag) <=> decision.needsRAG
    /\ Scheduled(chart) <=> decision.needsChart
    /\ Scheduled(direct) <=>
         (decision.needsDirect /\ ~decision.needsRAG /\ ~decision.needsChart)
    /\ Scheduled(direct) => ~Scheduled(rag) /\ ~Scheduled(chart)
    /\ TaskCount <= 2

C11_Witness ==
  /\ decision.needsRAG /\ decision.needsChart /\ decision.needsDirect
  /\ Scheduled(rag) /\ Scheduled(chart) /\ ~Scheduled(direct)

\* C12: the response delegateQuery returns follows the merge table:
\* retrieval and chart: retrieval's answer then the chart suffix, retrieval's
\* fileIds and references, the chart; retrieval only: its answer, fileIds and
\* references, no chart; chart only: the fixed chart text, nothing else but
\* the chart; direct only: its answer alone; nothing: the rephrase text alone.
C12_MergeTable ==
  orch = "returned" =>
    LET hasRag == rag.pc = "fulfilled"
        hasChart == chart.pc = "fulfilled"
        hasDirect == direct.pc = "fulfilled"
    IN /\ result.error = Null
       /\ (hasRag /\ hasChart) =>
            /\ result.answer = <<rag.data.answer, ChartSuffix>>
            /\ result.fileIds = rag.data.fileIds
            /\ result.references = rag.data.references
            /\ result.chartConfig = chart.data
       /\ (hasRag /\ ~hasChart) =>
            /\ result.answer = <<rag.data.answer>>
            /\ result.fileIds = rag.data.fileIds
            /\ result.references = rag.data.references
            /\ result.chartConfig = NullChart
       /\ (~hasRag /\ hasChart) =>
            /\ result.answer = <<ChartOnlyAnswer>>
            /\ result.fileIds = << >>
            /\ result.references = << >>
            /\ result.chartConfig = chart.data
       /\ (~hasRag /\ ~hasChart /\ hasDirect) =>
            /\ result.answer = <<direct.answer>>
            /\ result.fileIds = << >>
            /\ result.references = << >>
            /\ result.chartConfig = NullChart
       /\ (~hasRag /\ ~hasChart /\ ~hasDirect) =>
            /\ result.answer = <<RephraseAnswer>>
            /\ result.fileIds = << >>
            /\ result.references = << >>
            /\ result.chartConfig = NullChart

C12_Witness ==
  /\ orch = "returned"
  /\ rag.pc = "fulfilled"
  /\ rag.data.fileIds # << >>
  /\ chart.pc = "fulfilled"
  /\ result.answer = <<SynthAnswer, ChartSuffix>>

\* C13: when the retrieval and the chart task both ran, the response is the
\* same whichever settled first, and it is the merge of the two results taken
\* in either order.
C13_OrderIndependence ==
  (orch = "returned" /\ rag.pc = "fulfilled" /\ chart.pc = "fulfilled") =>
    /\ settleLog \in {<<"rag", "chart">>, <<"chart", "rag">>}
    /\ result = NodeSuccess(MergeResults(<<RagResult(rag), ChartResult(chart)>>))
    /\ result = NodeSuccess(MergeResults(<<ChartResult(chart), RagResult(rag)>>))

C13_Witness ==
  /\ orch = "returned"
  /\ settleLog = <<"chart", "rag">>
  /\ rag.data.fileIds # << >>
  /\ chart.data # NullChart

\* C14: the response has a chart only if the decision asked for one, and
\* fileIds or references only if the decision asked for retrieval.
C14_Provenance ==
  /\ result.chartConfig # NullChart => decision.needsChart
  /\ result.fileIds # << >> => decision.needsRAG
  /\ result.references # << >> => decision.needsRAG

C14_Witness ==
  /\ result.chartConfig # NullChart
  /\ result.references # << >>
  /\ decision.needsChart /\ decision.needsRAG

\* the synthesis completion request of ragGenerate has failed
SynthFailed == rag.error = ErrLlm

\* C15: when documents were retrieved and the synthesis completion fails,
\* ragGenerate rejects with that error and returns no answer, canned or
\* otherwise, and delegateQuery fails with the same error.
C15_SynthesisFatal ==
  SynthFailed =>
    /\ rag.docs # << >>
    /\ \E i \in 1..Len(llmLog) : llmLog[i] = "synth"
    /\ rag.pc = "rejected"
    /\ rag.data = NoRagData
    /\ orch = "threw"
    /\ result = NodeFailure(ErrLlm)
    /\ result.answer = <<GenericErrorAnswer>>
    /\ result.fileIds = << >>

C15_Witness ==
  /\ SynthFailed
  /\ Len(rag.docs) > 1
  /\ storeLog[Len(storeLog)].outcome = "resolved"
  /\ orch = "threw"
  /\ result.error = ErrLlm

\* C16: the step in which a task rejects fails delegateQuery with that task's
\* error and leaves the sibling task as it was, still pending if it was
\* pending; after the failure the only steps are the sibling's own, which
\* runs to its completion, and they change neither the outcome nor the
\* response already delivered.
C16_SiblingsNotCancelled ==
  [][ /\ (orch = "waiting" /\ orch' = "threw") =>
           \/ /\ rag.pc # "rejected" /\ rag'.pc = "rejected"
              /\ result' = NodeFailure(rag'.error)
              /\ chart' = chart /\ direct' = direct
           \/ /\ direct.pc # "rejected" /\ direct'.pc = "rejected"
              /\ result' = NodeFailure(direct'.error)
              /\ chart' = chart /\ rag' = rag
      /\ orch = "threw" =>
           /\ orch' = "threw"
           /\ result' = result
           /\ rag' = rag /\ direct' = direct
           /\ chart.pc = "extract" /\ chart'.pc \in {"fulfilled", "hung"}
    ]_vars

C16_Witness ==
  /\ orch = "threw"
  /\ settleLog = <<"rag", "chart">>
  /\ rag.pc = "rejected"
  /\ chart.pc = "fulfilled"
  /\ chart.data # NullChart
  /\ result = NodeFailure(rag.error)

\* the chart-extraction request failed, or its completion holds no text that
\* parses as an object
ChartFailed ==
  \/ chartReply.status = "failed"
  \/ /\ chartReply.status = "ok"
     /\ \/ MatchJson(chartReply.text) = NoMatch
        \/ ~ParsesAsJson(MatchJson(chartReply.text))

\* C17: when the chart-extraction call or the parse of its completion
\* fails, the chart task is fulfilled with the placeholder (bar,
\* "Sample Chart", labels A,B,C, data 10,20,15); an error in the response or
\* a failure of delegateQuery then comes from another task only, and when no
\* other task fails or hangs the response carries the placeholder.
C17_ChartNeverFails ==
  ChartFailed =>
    /\ chart.pc = "fulfilled"
    /\ chart.data.type = "bar"
    /\ chart.data.titleText = "Sample Chart"
    /\ chart.data.labels = <<"A", "B", "C">>
    /\ chart.data.data = <<10, 20, 15>>
    /\ (result.error # Null \/ orch = "threw") => rag.pc = "rejected"
    /\ Settled(rag) => /\ orch = "returned"
                       /\ result.error = Null
                       /\ result.chartConfig = chart.data

C17_Witness ==
  /\ chartReply.status = "ok"
  /\ MatchJson(chartReply.text) # NoMatch
  /\ ~ParsesAsJson(MatchJson(chartReply.text))
  /\ orch = "returned"
  /\ result.chartConfig.titleText = "Sample Chart"
  /\ result.error = Null

\* the store-function call made last
LastCall == storeLog[Len(storeLog)]

\* C18: a store function holds its own client from getClient() to
\* client.close() and has closed it when it settles, by return or by throw:
\* at most one client is open at any moment, none is open between the
\* primary search and the full scan, and none once ragGenerate has settled or
\* delegateQuery has finished.
C18_ConnectionDiscipline ==
  /\ conns \in {0, 1}
  /\ rag.pc \in {"query", "close"} =>
       conns = 1 /\ LastCall.outcome = "pending"
  /\ (storeLog # << >> /\ LastCall.outcome # "pending") => conns = 0
  /\ rag.pc \in {"connect", "synth"} => conns = 0
  /\ Done(rag) => conns = 0
  /\ Finished => conns = 0

C18_Witness ==
  /\ orch = "threw"
  /\ Len(storeLog) = 2
  /\ storeLog[1].outcome = "resolved"
  /\ storeLog[2].outcome = "rejected"
  /\ rag.thrown = ErrStore
  /\ conns = 0

\* how many completion requests of a kind were issued
Requests(kind) == Cardinality({i \in 1..Len(llmLog) : llmLog[i] = kind})

\* how many times a store operation was called
Calls(op) == Cardinality({i \in 1..Len(storeLog) : storeLog[i].op = op})

\* C19: one request issues exactly one classification completion, at most
\* one synthesis, one chart-extraction and one direct-answer completion, at
\* most three completions in all, at most one primary search and one full
\* scan; a call that failed is followed by no other call of its component.
C19_NoRetries ==
  /\ Requests("classify") = 1
  /\ Requests("synth") <= 1
  /\ Requests("chart") <= 1
  /\ Requests("direct") <= 1
  /\ Len(llmLog) <= 3
  /\ Calls("bm25") <= 1
  /\ Calls("fetchObjects") <= 1
  /\ \A i \in 1..Len(storeLog) :
       storeLog[i].outcome = "rejected" =>
         i = Len(storeLog) /\ Requests("synth") = 0
  /\ SynthFailed => llmLog[Len(llmLog)] = "synth"

C19_Witness ==
  /\ Len(llmLog) = 3
  /\ Len(storeLog) = 2
  /\ SynthFailed
  /\ chartReply.status = "failed"
  /\ Finished

\* a store function of ragGenerate has thrown
StoreFailed == storeLog # << >> /\ LastCall.outcome = "rejected"

\* C20: the response carries an error only when delegateQuery threw, which
\* happens only when ragGenerate rejected on a failed store call or a failed
\* synthesis call, or handleDirectAnswer rejected on its failed completion
\* call, and the error is that call's; a failed classification, a failed
\* chart extraction and an empty retrieval, alone or together, leave the
\* error null.
C20_RecoverableNeverSurface ==
  /\ result.error # Null <=> orch = "threw"
  /\ result.error # Null =>
       \/ /\ rag.pc = "rejected"
          /\ \/ StoreFailed /\ result.error = ErrStore
             \/ SynthFailed /\ result.error = ErrLlm
       \/ /\ direct.pc = "rejected"
          /\ llmLog[Len(llmLog)] = "direct"
          /\ result.error = ErrLlm
  /\ rag.pc = "rejected" => StoreFailed \/ SynthFailed
  /\ BothEmpty => result.error = Null
  /\ ((ClassifyFailed \/ ChartFailed) /\ ~StoreFailed /\ ~SynthFailed) =>
       result.error = Null

C20_Witness ==
  /\ ClassifyFailed
  /\ BothEmpty
  /\ orch = "returned"
  /\ result.answer = <<CannedAnswer>>
  /\ result.error = Null

\* C21: when ragGenerate returns after synthesis over k >= 1 retrieved
\* documents, fileIds lists the k identifiers in retrieval order, repeated
\* ones included, and references lists the k (fileId, question, answer)
\* triples in the same order; the response carries both unchanged.
C21_SynthesisShape ==
  (rag.pc = "fulfilled" /\ rag.docs # << >>) =>
    /\ Len(rag.data.fileIds) = Len(rag.docs)
    /\ Len(rag.data.references) = Len(rag.docs)
    /\ \A i \in 1..Len(rag.docs) :
         /\ rag.data.fileIds[i] = rag.docs[i].fileId
         /\ rag.data.references[i].fileId = rag.data.fileIds[i]
         /\ rag.data.references[i].question = rag.docs[i].question
         /\ rag.data.references[i].answer = rag.docs[i].answer
    /\ orch = "returned" =>
         /\ result.fileIds = rag.data.fileIds
         /\ result.references = rag.data.references

C21_Witness ==
  /\ orch = "returned"
  /\ Len(result.fileIds) = 3
  /\ result.fileIds[1] = result.fileIds[3]
  /\ result.fileIds[1] # result.fileIds[2]
  /\ Len(result.references) = 3

\* the first balanced {...} region of a text that holds one: from the first
\* opening brace to the first closing brace after it (objects do not nest in
\* the completions considered)
FirstRegion(text) ==
  LET i == CHOOSE x \in 1..Len(text) :
             text[x] = LB /\ \A y \in 1..(x - 1) : text[y] # LB
      j == CHOOSE x \in (i + 1)..Len(text) :
             text[x] = RB /\ \A y \in (i + 1)..(x - 1) : text[y] # RB
  IN SubSeq(text, i, j)

\* the text is an object that parses, followed by further text that holds
\* another closing brace
TrailingBrace(text) ==
  /\ MatchJson(text) # NoMatch
  /\ ParsesAsJson(FirstRegion(text))
  /\ Len(MatchJson(text)) > Len(FirstRegion(text))

\* C22: when the classification completion is an object that parses,
\* followed by text that holds another closing brace, the decision is the
\* one the first object encodes; likewise the chart parameters are those of
\* the first object of the chart-extraction completion.
C22_FirstBalancedRegion ==
  /\ (clsReply.status = "ok" /\ TrailingBrace(clsReply.text)) =>
       decision = analyzeQuery(Completion(FirstRegion(clsReply.text)))
  /\ (chartReply.status = "ok" /\ TrailingBrace(chartReply.text)) =>
       chart.data = mockGenerateChart(
                      extractChartParams(Completion(FirstRegion(chartReply.text))))

\* C23 as stated: the chartConfig of a response to a chart request is the
\* extractor's record of exactly type, title, labels and data, unchanged.
C23_ChartSpecPassThrough ==
  (orch = "returned" /\ decision.needsChart) =>
    LET params == extractChartParams(chartReply)
    IN /\ DOMAIN result.chartConfig = {"type", "title", "labels", "data"}
       /\ result.chartConfig.type = params.chartType
       /\ result.chartConfig.labels = params.labels.items
       /\ result.chartConfig.data = params.data.items

\* C23 amended: the chartConfig of a response to a chart request is the
\* configuration generateChartConfig builds from the extractor's parameters:
\* the type (bar when none is given), the labels and one dataset labelled
\* with the title (defaults when absent), the title option, and the line and
\* y-axis options that go with the requested chart type.
C23_ChartConfigGenerated ==
  (orch = "returned" /\ decision.needsChart) =>
    LET params == extractChartParams(chartReply)
    IN /\ result.chartConfig = generateChartConfig(params)
       /\ {"datasetLabel", "titleText", "lineOptions", "yBeginAtZero"}
            \subseteq DOMAIN result.chartConfig
       /\ result.chartConfig.type # Null
       /\ result.chartConfig.datasetLabel # Null
       /\ result.chartConfig.titleText # Null
       /\ params.chartType \in {"bar", "line"} => result.chartConfig.yBeginAtZero
       /\ params.chartType = "line" => result.chartConfig.lineOptions

C23_Witness ==
  /\ orch = "returned"
  /\ decision.needsChart
  /\ chartReply.status = "ok"
  /\ extractChartParams(chartReply).chartType = "line"
  /\ result.chartConfig.lineOptions
  /\ result.chartConfig.yBeginAtZero
  /\ result.chartConfig.datasetLabel = "Sales"

\* the state of the request followed in full
requestVars ==
  <<query, optTenant, orch, clsReply, decision, rag, chart, chartReply,
    direct, conns, storeLog, llmLog, settleLog, result>>

C25_TenantCapture ==
  [][ /\ (orch = "idle" /\ orch' # "idle") => optTenant' = currentTenant
      /\ (peer.pc = "idle" /\ peer'.pc # "idle") =>
           peer'.tenant = currentTenant
      /\ currentTenant' # currentTenant =>
           UNCHANGED <<optTenant, storeLog, peer>>
      /\ orch # "idle" => optTenant' = optTenant
      /\ peer.pc # "idle" => peer'.tenant = peer.tenant
      /\ Len(storeLog') > Len(storeLog) =>
           storeLog'[Len(storeLog')].tenant = optTenant
      /\ \A i \in 1..Len(storeLog) : storeLog'[i].tenant = storeLog[i].tenant
    ]_vars

C25_Witness ==
  /\ optTenant = "tenant3"
  /\ currentTenant = "tenant2"
  /\ peer.pc = "running"
  /\ peer.tenant = "tenant1"
  /\ Len(storeLog) = 2
  /\ storeLog[1].tenant = "tenant3"
  /\ storeLog[2].tenant = "tenant3"
  /\ rag.pc = "fulfilled"
  /\ rag.data.fileIds = <<"FILE-005">>

\* the full scan ran and returned no object
ScanEmpty ==
  /\ Len(storeLog) = 2
  /\ storeLog[2].op = "fetchObjects"
  /\ storeLog[2].outcome = "resolved"
  /\ storeLog[2].objects = << >>

\* C26: ragGenerate returns the canned answer exactly when the full scan of
\* the tenant ran and returned nothing, which happens exactly for a tenant
\* holding no object; for a tenant holding an object every query whose store
\* calls succeed reaches the synthesis request, and a fulfilled ragGenerate
\* then carries the synthesised answer with non-empty fileIds and references.
C26_CannedIffScanEmpty ==
  /\ rag.pc = "fulfilled" =>
       /\ rag.data = EmptyRagData <=> ScanEmpty
       /\ ScanEmpty <=> store[tenant] = << >>
       /\ store[tenant] # << >> =>
            /\ Requests("synth") = 1
            /\ rag.data.answer = SynthAnswer
            /\ rag.data.fileIds # << >>
            /\ rag.data.references # << >>
            /\ orch = "returned" =>
                 result.fileIds # << >> /\ result.references # << >>
  /\ (store[tenant] # << >> /\ rag.pc = "rejected" /\ ~StoreFailed) =>
       Requests("synth") = 1
  /\ (store[tenant] # << >> /\ rag.pc = "synth") => Requests("synth") = 1
  /\ ScanEmpty => rag.pc \in {"fulfilled", "close", "hung"}

C26_Witness ==
  /\ query = QHello
  /\ store[tenant] # << >>
  /\ Len(storeLog) = 2
  /\ storeLog[1].objects = << >>
  /\ orch = "returned"
  /\ result.fileIds # << >>
  /\ result.answer = <<SynthAnswer>>

\* C27: when a store function throws, in the primary search or in the full
\* scan, ragGenerate rejects with that error and delegateQuery fails with
\* it: no call follows the failed one (no full scan after a failed primary
\* search, no synthesis request after either), no answer is returned, canned
\* or otherwise, and the failing call's client has been closed.
C27_StoreFailure ==
  /\ StoreFailed =>
       /\ rag.pc = "rejected"
       /\ rag.error = ErrStore
       /\ rag.data = NoRagData
       /\ orch = "threw"
       /\ result = NodeFailure(ErrStore)
       /\ Requests("synth") = 0
       /\ storeLog[1].outcome = "rejected" => Len(storeLog) = 1
       /\ conns = 0
  /\ rag.thrown # Null =>
       /\ rag.pc \in {"close", "hung", "rejected"}
       /\ rag.pc = "close" => conns = 1 /\ LastCall.outcome = "pending"
       /\ Requests("synth") = 0

C27_Witness ==
  /\ Len(storeLog) = 1
  /\ storeLog[1].op = "bm25"
  /\ storeLog[1].outcome = "rejected"
  /\ rag.thrown = ErrStore
  /\ conns = 0
  /\ llmLog = <<"classify">>
  /\ result.error = ErrStore

\* C28: when every gateway call settles, runAgentGraph eventually holds a
\* response and keeps it: delegateQuery finishes once, what it returned or
\* threw is never replaced, and when it threw the response is the state with
\* the generic error answer and the error's message.
C28_Termination ==
  /\ <>[](/\ Finished
          /\ orch = "returned" => result.error = Null
          /\ orch = "threw" => /\ result.answer = <<GenericErrorAnswer>>
                               /\ result.error \in {ErrStore, ErrLlm})
  /\ [][Finished => (orch' = orch /\ result' = result)]_vars

C28_Witness ==
  /\ orch = "threw"
  /\ chart.pc = "fulfilled"
  /\ rag.pc = "rejected"
  /\ result.answer = <<GenericErrorAnswer>>
  /\ result.error = ErrLlm
  /\ ~AnyHung

\* every object of the store, tenant by tenant
AllObjects == store["tenant1"] \o store["tenant2"] \o store["tenant3"]

\* C29: whenever setup-db has run to its end, on an empty store or on a
\* store an earlier run left the collection in, the collection holds exactly
\* the three tenants and the five seeded entries, each once and under its
\* own tenant, as after a single run on an empty store.
C29_SetupIdempotent ==
  setup.pc = "done" =>
    /\ schema = SeededSchema
    /\ store = SeededStore
    /\ Len(AllObjects) = Len(qaEntries)
    /\ \A i \in 1..Len(qaEntries) :
         /\ Cardinality({j \in 1..Len(AllObjects) :
                           AllObjects[j].fileId = qaEntries[i].fileId}) = 1
         /\ DocOf(qaEntries[i]) \in Range(store[qaEntries[i].tenant])
    /\ conns = 0

C29_Witness ==
  /\ setup.pc = "done"
  /\ setup.runs = 2
  /\ setup.exists
  /\ store = SeededStore

\* C30: the configuration generateChartConfig returns has the requested
\* chart type (bar when none is given) and the given labels and data (the
\* built-in ones when absent); it has the zero-based y scale exactly when
\* its type is bar or line, and the line options exactly when its type is
\* line.
C30_ChartConfigGeneration ==
  chart.pc = "fulfilled" =>
    LET params == extractChartParams(chartReply)
        config == chart.data
    IN /\ config.type = IF params.chartType = Null THEN "bar"
                        ELSE params.chartType
       /\ config.labels = IF params.labels.defined THEN params.labels.items
                          ELSE <<"Label 1", "Label 2", "Label 3">>
       /\ config.data = IF params.data.defined THEN params.data.items
                        ELSE <<12, 19, 3>>
       /\ config.yBeginAtZero <=> config.type \in {"bar", "line"}
       /\ config.lineOptions <=> config.type = "line"

====
